---- MODULE Spec2Model ----
(***************************************************************************)
(* Model of src/main.rs of osm_driveway_access_filter: the allow-list      *)
(* loader, the selection predicate, the poison-node scan, the way filter,  *)
(* the node closure, the bounds calculation and the emission of output.osm.*)
(*                                                                         *)
(* Three groups of variables, one per part of the program:                 *)
(*   - the pipeline of main (Spec, SpecIO),                                *)
(*   - parse_amazon_editors (SpecLoad),                                    *)
(*   - the closure handed to get_objs_and_deps (SpecPred).                 *)
(***************************************************************************)
EXTENDS Integers, Sequences, FiniteSets, TLC

VARIABLES
    pc,             \* position of main
    filtered,       \* main.rs:62  BTreeMap<OsmId, OsmObj>, as its entries in key order
    poison_nodes,   \* main.rs:76  HashSet<NodeId>, as its elements in iteration order
    good_ways,      \* main.rs:85  Vec<&OsmObj>
    good_node_ids,  \* main.rs:103 HashSet<NodeId>, as its elements in iteration order
    good_items,     \* main.rs:105 Vec<&OsmObj>
    bounds,         \* main.rs:136 [f64; 4], <<>> before it is computed
    created,        \* whether output.osm has been created by this run
    osmfile,        \* the elements written to output.osm so far
    text,           \* content of public_data/amazon.txt, a sequence of characters
    reader,         \* parse_amazon_editors: the lines not yet read
    set,            \* parse_amazon_editors: the HashSet<String> being filled
    element,        \* the OsmObj the selection closure is called with
    amazon,         \* the allow-list captured by the selection closure
    selected        \* the closure's result: "true", "false", "panic"; "none" before the call

vars == <<pc, filtered, poison_nodes, good_ways, good_node_ids,
          good_items, bounds, created, osmfile, text, reader, set, element,
          amazon, selected>>

mainVars == <<filtered, poison_nodes, good_ways, good_node_ids,
              good_items, bounds, created, osmfile>>
loadVars == <<text, reader, set>>
predVars == <<element, amazon, selected>>

----------------------------------------------------------------------------
(* Bounds of the model *)

MaxNodeId == 2     \* node ids are 1..MaxNodeId
MaxText == 3       \* amazon.txt has at most MaxText characters

NodeIds == 1..MaxNodeId
WayIds == {1, 2}
\* the lengths a way's node sequence may have
RefCounts == {0, 1, 2}
RelationIds == {1}
\* (lat, lon) pairs; finite, as decoded from the archive's integer coordinates
Positions == {<<0, 5>>, <<1, 3>>}
\* the iteration orders a HashSet may have (its RandomState decides)
HashOrders == {"asc", "desc"}

----------------------------------------------------------------------------
(* Generic helpers *)

Range(s) == {s[i] : i \in 1..Len(s)}

RECURSIVE SetToSeq(_)
SetToSeq(S) ==
    IF S = {} THEN <<>>
    ELSE LET m == CHOOSE x \in S : \A y \in S : x <= y
         IN <<m>> \o SetToSeq(S \ {m})

Reverse(s) == [i \in 1..Len(s) |-> s[Len(s) + 1 - i]]

RECURSIVE Flatten(_)
Flatten(ss) == IF ss = <<>> THEN <<>> ELSE Head(ss) \o Flatten(Tail(ss))

SeqsOfLen(S, lens) == UNION {[1..k -> S] : k \in lens}
SeqsUpTo(S, n) == SeqsOfLen(S, 0..n)

----------------------------------------------------------------------------
(* osmpbfreader objects *)

NoTags == {}
Tags(k, v) == {<<k, v>>}

\* Tags::contains_key
contains_key(tags, k) == \E t \in tags : t[1] = k
\* Tags::contains(key, value)
contains(tags, k, v) == <<k, v>> \in tags

Node(i, tags, pos) ==
    [kind |-> "node", id |-> i, tags |-> tags, lat |-> pos[1], lon |-> pos[2]]
Way(i, nodes) == [kind |-> "way", id |-> i, nodes |-> nodes]
Relation(i) == [kind |-> "relation", id |-> i, refs |-> <<>>]

is_node(obj) == obj.kind = "node"
is_way(obj) == obj.kind = "way"

Absent == [kind |-> "absent"]
NodeTagSets == {NoTags, Tags("barrier", "no"), Tags("entrance", "yes")}
NodeChoices == {Absent} \cup {[tags |-> t, pos |-> p] : t \in NodeTagSets, p \in Positions}
WayChoices == {Absent} \cup {[nodes |-> ns] : ns \in SeqsOfLen(NodeIds, RefCounts)}
RelationChoices == {Absent, [refs |-> <<>>]}

\* The BTreeMap<OsmId, OsmObj> holding the chosen objects, as the sequence of
\* its values in key order (OsmId orders Node < Way < Relation, then by number).
BTreeMap(nf, wf, rf) ==
    LET ids(f) == SetToSeq({i \in DOMAIN f : f[i] # Absent})
        nodes == [k \in 1..Len(ids(nf)) |->
                    Node(ids(nf)[k], nf[ids(nf)[k]].tags, nf[ids(nf)[k]].pos)]
        ways == [k \in 1..Len(ids(wf)) |-> Way(ids(wf)[k], wf[ids(wf)[k]].nodes)]
        rels == [k \in 1..Len(ids(rf)) |-> Relation(ids(rf)[k])]
    IN nodes \o ways \o rels

----------------------------------------------------------------------------
(* std::collections::HashSet: a set whose iteration order is not the        *)
(* insertion order; the value is kept as the sequence iter() yields.        *)

HashIter(S, order) == IF order = "asc" THEN SetToSeq(S) ELSE Reverse(SetToSeq(S))
\* HashSet::contains
hs_contains(hs, x) == \E i \in 1..Len(hs) : hs[i] = x
\* Iterator::collect::<HashSet<_>>() over a sequence of values
hs_collect(s, order) == HashIter(Range(s), order)
\* HashSet::intersection: iterates self, keeps what other contains
hs_intersection(a, b) == SelectSeq(a, LAMBDA x : hs_contains(b, x))

----------------------------------------------------------------------------
(* main.rs:23-48  compare_vals and get_bounds *)

\* f64::INFINITY and f64::NEG_INFINITY: beyond every coordinate of Positions
INFINITY == 1000
NEG_INFINITY == -1000

\* returns <<min, max>> as left in the two &mut arguments
compare_vals(p, min, max) ==
    LET omin == IF p < min THEN p ELSE min
        omax == IF p > max THEN p ELSE max
    IN <<omin, omax>>

RECURSIVE get_bounds_loop(_, _)
\* acc = <<minlat, minlon, maxlat, maxlon>>
get_bounds_loop(data, acc) ==
    IF data = <<>> THEN acc
    ELSE IF is_node(Head(data))
         THEN LET lat == compare_vals(Head(data).lat, acc[1], acc[3])
                  lon == compare_vals(Head(data).lon, acc[2], acc[4])
              IN get_bounds_loop(Tail(data), <<lat[1], lon[1], lat[2], lon[2]>>)
         ELSE get_bounds_loop(Tail(data), acc)

get_bounds(data) ==
    get_bounds_loop(data, <<INFINITY, INFINITY, NEG_INFINITY, NEG_INFINITY>>)

----------------------------------------------------------------------------
(* main.rs:75-119  the passes of main over the expanded data set *)

\* PoisonNodes looking for one barrier value instead of the key
PoisonNodesByValue(data, order) ==
    LET bad == SelectSeq(data, LAMBDA o :
                    is_node(o) /\ contains(o.tags, "barrier", "yes"))
    IN hs_collect([k \in 1..Len(bad) |-> bad[k].id], order)

\* main.rs:76-83
PoisonNodes(data, order) ==
    LET bad == SelectSeq(data, LAMBDA o :
                    is_node(o) /\ contains_key(o.tags, "barrier"))
    IN hs_collect([k \in 1..Len(bad) |-> bad[k].id], order)

\* main.rs:88-97  the test of the filter_map closure; only membership in the
\* temporary set of the way's nodes is used, so its iteration order is fixed
IsGoodWay(obj, poison) ==
    /\ is_way(obj)
    /\ hs_intersection(poison, hs_collect(obj.nodes, "asc")) = <<>>

\* GoodWays that also drops a way with a reference to no node of the data set
GoodWaysResolved(data, poison) ==
    SelectSeq(data, LAMBDA o :
        /\ IsGoodWay(o, poison)
        /\ \A k \in 1..Len(o.nodes) :
              \E j \in 1..Len(data) : is_node(data[j]) /\ data[j].id = o.nodes[k])

\* main.rs:85-102  first half of the unzip
GoodWays(data, poison) == SelectSeq(data, LAMBDA o : IsGoodWay(o, poison))

\* main.rs:85-103  second half of the unzip, flattened into a HashSet
GoodNodeIds(ways, order) ==
    hs_collect(Flatten([k \in 1..Len(ways) |-> ways[k].nodes]), order)

\* GoodNodes that keeps every node of the data set
GoodNodesAll(data, ids) == SelectSeq(data, LAMBDA o : is_node(o))

\* GoodNodes that walks the HashSet and looks each identifier up in the data set
GoodNodesInHashOrder(data, ids) ==
    LET found == SelectSeq(ids, LAMBDA i :
                    \E j \in 1..Len(data) : is_node(data[j]) /\ data[j].id = i)
    IN [k \in 1..Len(found) |->
          data[CHOOSE j \in 1..Len(data) : is_node(data[j]) /\ data[j].id = found[k]]]

\* main.rs:105-118
GoodNodes(data, ids) ==
    SelectSeq(data, LAMBDA o : is_node(o) /\ hs_contains(ids, o.id))

\* GoodItems with the ways put first
GoodItemsWaysFirst(data, ids, ways) == ways \o GoodNodes(data, ids)

\* main.rs:105-119
GoodItems(data, ids, ways) == GoodNodes(data, ids) \o ways

----------------------------------------------------------------------------
(* main.rs:121-168  the document written to output.osm, one entry per       *)
(* top-level element (an entity with its nd/tag/member children)            *)

\* main.rs:147-166
ItemToXml(item) ==
    CASE item.kind = "node" ->
            [el |-> "node", id |-> item.id, lat |-> item.lat, lon |-> item.lon,
             tags |-> item.tags]
      [] item.kind = "way" -> [el |-> "way", id |-> item.id, nd |-> item.nodes]
      [] item.kind = "relation" ->
            [el |-> "relation", id |-> item.id, member |-> item.refs]

\* main.rs:137-146
BoundsToXml(b) ==
    [el |-> "bounds", minlat |-> b[1], minlon |-> b[2], maxlat |-> b[3],
     maxlon |-> b[4]]

\* main.rs:126-168
Document(b, items) ==
    <<[el |-> "?xml"], [el |-> "osm"], BoundsToXml(b)>>
        \o [k \in 1..Len(items) |-> ItemToXml(items[k])]
        \o <<[el |-> "/osm"]>>

----------------------------------------------------------------------------
(* main.rs:10-21  parse_amazon_editors *)

\* the characters of amazon.txt: a letter, a space, a carriage return, a line feed
Chars == {"a", "SP", "CR", "LF"}
Whitespace == {"SP", "CR", "LF"}

\* str::trim_end
RECURSIVE trim_end(_)
trim_end(line) ==
    IF line # <<>> /\ line[Len(line)] \in Whitespace
    THEN trim_end(SubSeq(line, 1, Len(line) - 1))
    ELSE line

\* BufRead::lines: each line up to its LF, without the LF and without a CR
\* right before that LF; a last line without LF is a line too
RECURSIVE Lines(_)
Lines(t) ==
    IF t = <<>> THEN <<>>
    ELSE IF \E k \in 1..Len(t) : t[k] = "LF"
         THEN LET k == CHOOSE j \in 1..Len(t) :
                        t[j] = "LF" /\ \A h \in 1..(j - 1) : t[h] # "LF"
                  raw == SubSeq(t, 1, k - 1)
                  line == IF raw # <<>> /\ raw[Len(raw)] = "CR"
                          THEN SubSeq(raw, 1, Len(raw) - 1) ELSE raw
              IN <<line>> \o Lines(SubSeq(t, k + 1, Len(t)))
         ELSE <<t>>

\* main.rs:18  the element one line inserts
EditorOfLine(line) == trim_end(line)

----------------------------------------------------------------------------
(* main.rs:62-74  the closure handed to get_objs_and_deps *)

None == [some |-> FALSE]
Some(x) == [some |-> TRUE, val |-> x]
Users == {"alice", "bob", ""}
WayTagSets ==
    {s \cup a : s \in {NoTags, Tags("service", "driveway"), Tags("service", "alley")},
                a \in {NoTags, Tags("access", "private"), Tags("access", "public")}}
Elements ==
    [kind : {"node", "way", "relation"}, tags : WayTagSets,
     user : {None} \cup {Some(u) : u \in Users}]

\* Option::is_some
is_some(opt) == opt.some
\* Option::expect: ok = FALSE is the panic "Short-circuiting broke"
expect(opt) == IF opt.some THEN [ok |-> TRUE, val |-> opt.val] ELSE [ok |-> FALSE]

\* main.rs:67-73  the last operand of the && chain
AmazonContainsUser(e, names) ==
    LET u == expect(e.user)
    IN IF ~u.ok THEN "panic" ELSE IF u.val \in names THEN "true" ELSE "false"

\* SelectionPredicate without the is_some operand that guards the expect
SelectionPredicateUnguarded(e, names) ==
    IF ~is_way(e) THEN "false"
    ELSE IF ~contains(e.tags, "service", "driveway") THEN "false"
    ELSE IF ~contains(e.tags, "access", "private") THEN "false"
    ELSE AmazonContainsUser(e, names)

\* main.rs:63-73  && evaluates left to right and stops at the first false
SelectionPredicate(e, names) ==
    IF ~is_way(e) THEN "false"
    ELSE IF ~contains(e.tags, "service", "driveway") THEN "false"
    ELSE IF ~contains(e.tags, "access", "private") THEN "false"
    ELSE IF ~is_some(e.user) THEN "false"
    ELSE AmazonContainsUser(e, names)

----------------------------------------------------------------------------
(* Initial states *)

InitMain ==
    /\ filtered = <<>>
    /\ poison_nodes = <<>>
    /\ good_ways = <<>>
    /\ good_node_ids = <<>>
    /\ good_items = <<>>
    /\ bounds = <<>>
    /\ created = FALSE
    /\ osmfile = <<>>
InitLoad == text = <<>> /\ reader = <<>> /\ set = {}
InitPred == element = [kind |-> "none"] /\ amazon = {} /\ selected = "none"

\* main after the allow-list is loaded and the archive opened
Init == pc = "select" /\ InitMain /\ InitLoad /\ InitPred
\* main from its first line
InitIO == pc = "load" /\ InitMain /\ InitLoad /\ InitPred
\* parse_amazon_editors called on a file of at most MaxText characters
InitLoader ==
    /\ pc = "open_list"
    /\ text \in SeqsUpTo(Chars, MaxText)
    /\ reader = <<>> /\ set = {}
    /\ InitMain /\ InitPred
\* the closure called by get_objs_and_deps on an object of the archive
InitPredicate ==
    /\ pc = "call"
    /\ element \in Elements
    /\ amazon \in SUBSET Users
    /\ selected = "none"
    /\ InitMain /\ InitLoad

----------------------------------------------------------------------------
(* The passes of main *)

\* main.rs:62-74  get_objs_and_deps returns Ok; the map is any value of its
\* type BTreeMap<OsmId, OsmObj>, which the later passes have to cope with
Select ==
    /\ pc = "select"
    /\ \E nf \in [NodeIds -> NodeChoices], wf \in [WayIds -> WayChoices],
          rf \in [RelationIds -> RelationChoices] :
            filtered' = BTreeMap(nf, wf, rf)
    /\ pc' = "scan"
    /\ UNCHANGED <<poison_nodes, good_ways, good_node_ids, good_items,
                   bounds, created, osmfile, loadVars, predVars>>

\* what get_objs_and_deps can return for a closure that selects ways only:
\* the selected ways and those of their nodes the archive holds
DepsOfWays(m) ==
    \A j \in 1..Len(m) :
        /\ m[j].kind # "relation"
        /\ is_node(m[j]) =>
              \E k \in 1..Len(m) : is_way(m[k]) /\ m[j].id \in Range(m[k].nodes)

\* main.rs:62-74  get_objs_and_deps returns Ok with the ways the closure
\* selected and their dependencies
SelectDeps ==
    /\ pc = "select"
    /\ \E nf \in [NodeIds -> NodeChoices], wf \in [WayIds -> WayChoices] :
          /\ DepsOfWays(BTreeMap(nf, wf, [i \in RelationIds |-> Absent]))
          /\ filtered' = BTreeMap(nf, wf, [i \in RelationIds |-> Absent])
    /\ pc' = "scan"
    /\ UNCHANGED <<poison_nodes, good_ways, good_node_ids, good_items,
                   bounds, created, osmfile, loadVars, predVars>>

\* main.rs:76-83
ScanPoison ==
    /\ pc = "scan"
    /\ \E order \in HashOrders : poison_nodes' = PoisonNodes(filtered, order)
    /\ pc' = "filter"
    /\ UNCHANGED <<filtered, good_ways, good_node_ids, good_items,
                   bounds, created, osmfile, loadVars, predVars>>

\* main.rs:85-103
FilterWays ==
    /\ pc = "filter"
    /\ good_ways' = GoodWays(filtered, poison_nodes)
    /\ \E order \in HashOrders :
          good_node_ids' = GoodNodeIds(GoodWays(filtered, poison_nodes), order)
    /\ pc' = "closure"
    /\ UNCHANGED <<filtered, poison_nodes, good_items, bounds, created,
                   osmfile, loadVars, predVars>>

\* main.rs:105-119  (append leaves good_ways empty)
AddNodes ==
    /\ pc = "closure"
    /\ good_items' = GoodItems(filtered, good_node_ids, good_ways)
    /\ good_ways' = <<>>
    /\ pc' = "create"
    /\ UNCHANGED <<filtered, poison_nodes, good_node_ids, bounds, created,
                   osmfile, loadVars, predVars>>

\* main.rs:121-169  the file is created and every write succeeds
Emit ==
    /\ pc = "create"
    /\ created' = TRUE
    /\ bounds' = get_bounds(filtered)
    /\ osmfile' = Document(get_bounds(filtered), good_items)
    /\ pc' = "done"
    /\ UNCHANGED <<filtered, poison_nodes, good_ways, good_node_ids,
                   good_items, loadVars, predVars>>

Next == Select \/ ScanPoison \/ FilterWays \/ AddNodes \/ Emit

Spec == Init /\ [][Next]_vars

\* the same passes over the maps get_objs_and_deps returns for this closure
NextDeps == SelectDeps \/ ScanPoison \/ FilterWays \/ AddNodes \/ Emit

SpecDeps == Init /\ [][NextDeps]_vars

----------------------------------------------------------------------------
(* main with its failures: every open, decode, create and write may fail *)

\* main.rs:59  parse_amazon_editors returns
LoadOk ==
    /\ pc = "load"
    /\ pc' = "open"
    /\ UNCHANGED <<mainVars, loadVars, predVars>>

\* main.rs:12, 18  an unwrap in parse_amazon_editors panics
LoadPanic ==
    /\ pc = "load"
    /\ pc' = "panicked"
    /\ UNCHANGED <<mainVars, loadVars, predVars>>

\* main.rs:60  File::open returns Ok
OpenOk ==
    /\ pc = "open"
    /\ pc' = "select"
    /\ UNCHANGED <<mainVars, loadVars, predVars>>

\* main.rs:60  File::open returns Err, propagated by ?
OpenErr ==
    /\ pc = "open"
    /\ pc' = "error"
    /\ UNCHANGED <<mainVars, loadVars, predVars>>

\* main.rs:74  get_objs_and_deps returns Err, propagated by ?
DecodeErr ==
    /\ pc = "select"
    /\ pc' = "error"
    /\ UNCHANGED <<mainVars, loadVars, predVars>>

\* main.rs:122  File::create returns Ok: output.osm exists and is empty
CreateOk ==
    /\ pc = "create"
    /\ created' = TRUE
    /\ osmfile' = <<>>
    /\ pc' = "write"
    /\ UNCHANGED <<filtered, poison_nodes, good_ways, good_node_ids,
                   good_items, bounds, loadVars, predVars>>

\* main.rs:122  File::create fails and unwrap panics
CreatePanic ==
    /\ pc = "create"
    /\ pc' = "panicked"
    /\ UNCHANGED <<mainVars, loadVars, predVars>>

\* main.rs:126-168  the next element of the document is written
WriteOk ==
    /\ pc = "write"
    /\ LET doc == Document(get_bounds(filtered), good_items)
           n == Len(osmfile) + 1
       IN /\ osmfile' = Append(osmfile, doc[n])
          /\ bounds' = IF doc[n].el = "bounds" THEN get_bounds(filtered) ELSE bounds
          /\ pc' = IF n = Len(doc) THEN "done" ELSE "write"
    /\ UNCHANGED <<filtered, poison_nodes, good_ways, good_node_ids,
                   good_items, created, loadVars, predVars>>

\* main.rs:126-168  a write fails and unwrap panics
WritePanic ==
    /\ pc = "write"
    /\ pc' = "panicked"
    /\ UNCHANGED <<mainVars, loadVars, predVars>>

NextIO ==
    \/ LoadOk \/ LoadPanic \/ OpenOk \/ OpenErr \/ SelectDeps \/ DecodeErr
    \/ ScanPoison \/ FilterWays \/ AddNodes
    \/ CreateOk \/ CreatePanic \/ WriteOk \/ WritePanic

SpecIO == InitIO /\ [][NextIO]_vars

----------------------------------------------------------------------------
(* parse_amazon_editors, line by line *)

\* main.rs:12-13
OpenEditors ==
    /\ pc = "open_list"
    /\ reader' = Lines(text)
    /\ set' = {}
    /\ pc' = "read_list"
    /\ UNCHANGED <<text, mainVars, predVars>>

\* main.rs:17-19
ReadLine ==
    /\ pc = "read_list"
    /\ reader # <<>>
    /\ set' = set \cup {EditorOfLine(Head(reader))}
    /\ reader' = Tail(reader)
    /\ UNCHANGED <<pc, text, mainVars, predVars>>

\* main.rs:20, 59
ReturnSet ==
    /\ pc = "read_list"
    /\ reader = <<>>
    /\ pc' = "loaded"
    /\ UNCHANGED <<text, reader, set, mainVars, predVars>>

NextLoad == OpenEditors \/ ReadLine \/ ReturnSet

SpecLoad == InitLoader /\ [][NextLoad]_vars

----------------------------------------------------------------------------
(* one call of the selection closure *)

\* main.rs:62-74
CallPredicate ==
    /\ pc = "call"
    /\ selected' = SelectionPredicate(element, amazon)
    /\ pc' = "returned"
    /\ UNCHANGED <<element, amazon, mainVars, loadVars>>

NextPred == CallPredicate

SpecPred == InitPredicate /\ [][NextPred]_vars

----------------------------------------------------------------------------
(* Properties of the emitted document, the predicate and the allow-list *)

\* the entities of the expanded data set
DataNodes == {o \in Range(filtered) : is_node(o)}
DataWays == {o \in Range(filtered) : is_way(o)}
DataNodeIds == {o.id : o \in DataNodes}
\* the disqualified set: nodes whose tags hold the key barrier
Disqualified == {o.id : o \in {n \in DataNodes : \E t \in n.tags : t[1] = "barrier"}}
\* the emitted list
Emitted(el) == {e \in Range(osmfile) : e.el = el}
EmittedNodeIds == {e.id : e \in Emitted("node")}
EmittedWayIds == {e.id : e \in Emitted("way")}
Refs(w) == Range(w.nodes)
Surviving == {w \in DataWays : w.id \in EmittedWayIds}
Terminated == pc \in {"done", "panicked", "error"}

\* C1: in the emitted document, every node reference of every emitted way is
\* the identifier of an emitted node (no dangling reference).
C1_ClosureComplete ==
    pc = "done" =>
        \A w \in Emitted("way") : \A k \in 1..Len(w.nd) : w.nd[k] \in EmittedNodeIds

\* C2: a way of the data set is absent from the emitted list exactly when its
\* node sequence holds the identifier of a node tagged with the key barrier;
\* a way with no such reference (an empty sequence included) is emitted.
C2_Disqualification ==
    pc = "done" =>
        \A w \in DataWays :
            (w.id \notin EmittedWayIds) <=> (Refs(w) \cap Disqualified # {})

C2_Witness ==
    /\ pc = "done"
    /\ \E w \in DataWays : Refs(w) \cap Disqualified # {} /\ w.id \notin EmittedWayIds
    /\ \E w \in DataWays : w.nodes = <<>> /\ w.id \in EmittedWayIds
    /\ \E n \in DataNodes : n.tags = Tags("barrier", "no")

\* C3: when a node is emitted, the emitted bounds are the smallest rectangle
\* around the emitted nodes: each of the four values is the least or greatest
\* latitude or longitude of an emitted node.
C3_BoundsOfEmitted ==
    (pc = "done" /\ Emitted("node") # {}) =>
        /\ \A e \in Emitted("node") :
              /\ bounds[1] <= e.lat /\ e.lat <= bounds[3]
              /\ bounds[2] <= e.lon /\ e.lon <= bounds[4]
        /\ \E e \in Emitted("node") : e.lat = bounds[1]
        /\ \E e \in Emitted("node") : e.lon = bounds[2]
        /\ \E e \in Emitted("node") : e.lat = bounds[3]
        /\ \E e \in Emitted("node") : e.lon = bounds[4]

\* C4: the emitted nodes are exactly the nodes of the data set whose identifier
\* occurs in the node sequence of a surviving (emitted) way.
C4_EmittedNodes ==
    pc = "done" =>
        Emitted("node") =
            {ItemToXml(n) : n \in {o \in DataNodes : \E w \in Surviving : o.id \in Refs(w)}}

\* a non-disqualified node shared by an excluded and a surviving way is
\* emitted, and a node only an excluded way references is not
C4_Witness ==
    /\ pc = "done"
    /\ \E w \in DataWays \ Surviving, v \in Surviving, n \in DataNodes, m \in DataNodes :
          /\ n.id \in Refs(w) /\ n.id \in Refs(v) /\ n.id \in EmittedNodeIds
          /\ m.id \in Refs(w) /\ m.id \notin EmittedNodeIds

\* C5: the selection closure returns true exactly for a way tagged
\* service=driveway and access=private whose user is present and on the
\* allow-list; it never reaches the expect with an absent user.
C5_PredicateExact ==
    pc = "returned" =>
        /\ selected # "panic"
        /\ (selected = "true") <=>
              /\ element.kind = "way"
              /\ <<"service", "driveway">> \in element.tags
              /\ <<"access", "private">> \in element.tags
              /\ element.user.some
              /\ element.user.val \in amazon
        /\ selected \in {"true", "false"}

\* a matching way without a user: the closure returns false
C5_Witness ==
    /\ pc = "returned"
    /\ element.kind = "way"
    /\ element.tags = Tags("service", "driveway") \cup Tags("access", "private")
    /\ ~element.user.some
    /\ selected = "false"

\* C6: when main has terminated, output.osm either was not created or holds
\* the complete document, with no dangling node reference.
C6_AllOrNothing ==
    Terminated =>
        \/ ~created /\ osmfile = <<>>
        \/ /\ osmfile = Document(get_bounds(filtered), good_items)
           /\ \A w \in Emitted("way") : \A k \in 1..Len(w.nd) : w.nd[k] \in EmittedNodeIds

\* C7: the loaded set holds the right-trimmed lines of the file that are not
\* empty after trimming, and so never the empty string.
C7_NonEmptyLines ==
    pc = "loaded" =>
        /\ set = {trim_end(l) : l \in Range(Lines(text))} \ {<<>>}
        /\ <<>> \notin set

\* C8: a way that references an identifier that is no node of the data set,
\* and no disqualified node, is emitted, no node is emitted for the missing
\* identifier, and main does not fail in these passes.
C8_MissingReference ==
    /\ pc \in {"select", "scan", "filter", "closure", "create", "done"}
    /\ pc = "done" =>
          \A w \in DataWays :
              (Refs(w) \ DataNodeIds # {} /\ Refs(w) \cap Disqualified = {}) =>
                  /\ w.id \in EmittedWayIds
                  /\ (Refs(w) \ DataNodeIds) \cap EmittedNodeIds = {}

C8_Witness ==
    /\ pc = "done"
    /\ \E w \in DataWays :
          /\ Refs(w) \ DataNodeIds # {}
          /\ Refs(w) \cap DataNodeIds # {}
          /\ w.id \in EmittedWayIds

\* C9: in the emitted list every node element precedes every way element, and
\* no relation element is emitted, also when the data set holds a relation.
C9_PointsThenLines ==
    pc = "done" =>
        /\ \A i, j \in 1..Len(osmfile) :
              (osmfile[i].el = "node" /\ osmfile[j].el = "way") => i < j
        /\ Emitted("relation") = {}
        /\ \A i \in 1..Len(good_items) :
              osmfile[3 + i] = ItemToXml(good_items[i])

C9_Witness ==
    /\ pc = "done"
    /\ \E o \in Range(filtered) : o.kind = "relation"
    /\ Emitted("node") # {}
    /\ Emitted("way") # {}

\* C10: the emitted document is the one a run with any other iteration order
\* of the two hash sets emits from the same data set, and its nodes, then its
\* ways, are in ascending identifier order, each once.
C10_Deterministic ==
    pc = "done" =>
        /\ \A o1, o2 \in HashOrders :
              LET ways == GoodWays(filtered, PoisonNodes(filtered, o1))
              IN osmfile = Document(get_bounds(filtered),
                                    GoodItems(filtered, GoodNodeIds(ways, o2), ways))
        /\ \A i, j \in 1..Len(osmfile) :
              (i < j /\ osmfile[i].el = osmfile[j].el /\ osmfile[i].el \in {"node", "way"})
                  => osmfile[i].id < osmfile[j].id

\* a run whose surviving-identifier set iterates in descending order
C10_Witness ==
    /\ pc = "done"
    /\ Len(good_node_ids) >= 2
    /\ good_node_ids[1] > good_node_ids[2]
    /\ Cardinality(Emitted("node")) >= 2
    /\ Cardinality(Emitted("way")) >= 2

====
